---- MODULE Spec2Model ----
(***************************************************************************)
(* The request pipeline of src/main.py (http_middleware): documentation    *)
(* bypass, body-size guard, rate limiter over the expiring cache, handler  *)
(* dispatch, header annotation and monitor update.                         *)
(*                                                                         *)
(* http_middleware is a coroutine of a single-threaded event loop: it can  *)
(* be suspended only at its awaits (request.stream() at line 136 and       *)
(* call_next at lines 120 and 176).  Each action below is the code that    *)
(* runs between two consecutive suspension points of one request.          *)
(*                                                                         *)
(* RedisLikeCache, util.get_client_identifier, get_monitor and Constants   *)
(* are imported by src/main.py and are not part of src/; they are modelled *)
(* from the specification (sections 3, 4.1, 4.4 and 6).                    *)
(*                                                                         *)
(* Three specifications draw the requests from different input sets:       *)
(*   SpecRate      two clients, the clock, bodies declared or streamed     *)
(*                 and empty, handlers that return: the rate limiter       *)
(*                 under concurrency and expiry;                           *)
(*   SpecPipeline  one client, every content-length, streamed bodies of    *)
(*                 every size, handlers that return or raise: the          *)
(*                 body-size guard, the short-circuits, the monitor;       *)
(*   SpecDocs      one client, every path and content-length: the          *)
(*                 documentation bypass beside the pipeline.               *)
(***************************************************************************)
EXTENDS Integers, Sequences, FiniteSets, TLC

\* ------------------------------------------------------------------ bounds
\* Configuration inputs (Constants.*), given small values.
MAX_REQUESTS == 2
WINDOW == 2
MAX_BODY_SIZE == 2
\* Requests in flight at once, requests a run lets through to the monitor,
\* the last clock value, the largest chunk of a streamed body.
NumReqs == 2
MaxTotal == 3
MaxTime == 3
MaxChunk == 2

\* The updates the periodic task makes in a run.
MaxUpdates == 2

Reqs == 1..NumReqs
Clients == {"a", "b"}
DocPaths == {"/docs", "/redoc", "/openapi.json"}
Paths == DocPaths \cup {"/"}

\* ---------------------------------------------------------- pure functions
\* int(content_length): a decimal digit string to its value.
RECURSIVE ParseInt(_)
ParseInt(s) ==
    IF s = <<>> THEN 0
    ELSE 10 * ParseInt(SubSeq(s, 1, Len(s) - 1)) + s[Len(s)]

\* str(n) and f"{n}" of a non-negative integer: its decimal digit string.
RECURSIVE Str(_)
Str(n) ==
    IF n < 10 THEN <<n>> ELSE Str(n \div 10) \o <<n % 10>>

Max(a, b) == IF a >= b THEN a ELSE b

\* The content-length headers a request may carry: <<>> is "no header"
\* (headers.get returns None); the others are digit strings.
ContentLengths ==
    { <<>>, Str(MAX_BODY_SIZE), <<0>> \o Str(MAX_BODY_SIZE + 1) }

\* util.get_client_identifier(request): a deterministic function of the
\* request's client metadata.
get_client_identifier(client) == client

\* A variant that drops the identifier from the key.
KeyShared(identifier) == <<"rate_limit">>

\* key = f"rate_limit:{identifier}"
Key(identifier) == <<"rate_limit", identifier>>

\* ---------------------------------------------------------- expiring cache
\* An optional value is <<>> (None) or <<v>>.
None == <<>>

\* cache.get(key): the stored value, None when absent or expired.
CacheGet(c, key, t) ==
    IF key \in DOMAIN c /\ t < c[key].expires_at
    THEN <<c[key].value>>
    ELSE None

\* cache.set(key, value, ttl): overwrite, expires_at = now + ttl.
CacheSet(c, key, value, ttl, t) ==
    [k \in DOMAIN c \cup {key} |->
        IF k = key THEN [value |-> value, expires_at |-> t + ttl] ELSE c[k]]

\* A variant that starts a new counter at 0.
NewValueFromZero(current) ==
    IF current # None /\ current[1] # 0 THEN current[1] + 1 ELSE 0

\* A variant that stores the value read, without the increment.
NewValueNoIncrement(current) ==
    IF current # None /\ current[1] # 0 THEN current[1] ELSE 1

\* new_value = (current + 1) if current else 1
NewValue(current) ==
    IF current # None /\ current[1] # 0 THEN current[1] + 1 ELSE 1

\* ------------------------------------------------------------------- state
VARIABLES
    now,      \* the clock the cache reads, in seconds
    cache,    \* the RedisLikeCache store: key -> [value, expires_at]
    req,      \* the requests in flight, each with its position in http_middleware
    monitor,  \* the monitor's aggregate request count
    win,      \* history, per client: the fixed window its rate checks fall in
    life      \* the lifespan coroutine, the periodic task it owns, the database

vars == <<now, cache, req, monitor, win, life>>

NoHeaders == [h \in {} |-> <<>>]

\* A free slot: no request in it.
Idle ==
    [pc |-> "idle", path |-> "/", client |-> "a", content_length |-> <<>>,
     body |-> 0, new_value |-> 0, k |-> 0, fresh |-> FALSE, wfresh |-> FALSE,
     before |-> 0, quiet |-> FALSE, called |-> FALSE, monitored |-> FALSE,
     result |-> "none", status_code |-> 0, headers |-> NoHeaders,
     steps |-> <<>>]

\* No rate check seen yet for a client.
NoWindow ==
    [start |-> -1, n |-> 0, fresh |-> FALSE, counts |-> <<>>, last |-> -1]

\* The lifespan before its first line: no task, no database.
LifeStart ==
    [pc |-> "start", task |-> "none", cancel_requested |-> FALSE,
     db |-> "closed", updates |-> 0, events |-> <<>>]

\* The lifespan suspended at its yield: the application is serving, the
\* periodic task sleeps between two updates.
LifeServing ==
    [pc |-> "serving", task |-> "sleeping", cancel_requested |-> FALSE,
     db |-> "open", updates |-> 1,
     events |-> <<"create_task", "db_init", "yield">>]

\* The application while it serves requests.
Init ==
    /\ now = 0
    /\ cache = [k \in {} |-> 0]
    /\ req = [r \in Reqs |-> Idle]
    /\ monitor = 0
    /\ win = [c \in Clients |-> NoWindow]
    /\ life = LifeServing

\* The application as constructed, before the lifespan is entered.
InitLifespan ==
    /\ now = 0
    /\ cache = [k \in {} |-> 0]
    /\ req = [r \in Reqs |-> Idle]
    /\ monitor = 0
    /\ win = [c \in Clients |-> NoWindow]
    /\ life = LifeStart

\* History: the request has completed the stage `name` of the pipeline.
Step(q, name) == [q EXCEPT !.steps = Append(@, name)]

\* A variant that updates the monitor before the headers are set.
StepsMonitorBeforeHeaders ==
    <<"Handled", "MonitorUpdated", "HeadersAnnotated", "Responded">>

\* The stages after call_next has returned, in the order of the code: the
\* rate-limit, security and timing headers, increment_request, return.
StepsAfterHandler ==
    <<"Handled", "HeadersAnnotated", "MonitorUpdated", "Responded">>

\* raise HTTPException(status_code=413, ...)
Raise413(q) ==
    [q EXCEPT !.pc = "done", !.result = "http_exception", !.status_code = 413]

\* The headers of the 429 HTTPException.
Headers429 ==
    ( "Retry-After" :> Str(WINDOW) ) @@
    ( "X-RateLimit-Limit" :> Str(MAX_REQUESTS) ) @@
    ( "X-RateLimit-Remaining" :> <<0>> ) @@
    ( "X-RateLimit-Reset" :> Str(WINDOW) )

\* A variant that runs the rate check after the handler was awaited.
Raise429AfterHandler(q) ==
    [q EXCEPT !.pc = "done", !.result = "http_exception", !.status_code = 429,
              !.headers = Headers429, !.called = TRUE]

\* raise HTTPException(status_code=429, ..., headers=...)
Raise429(q) ==
    [q EXCEPT !.pc = "done", !.result = "http_exception", !.status_code = 429,
              !.headers = Headers429]

\* A variant that reports the count read before the increment.
RemainingBeforeIncrement(current) == Max(MAX_REQUESTS - (current - 1), 0)

\* remaining = max(Constants.MAX_REQUESTS - current, 0)
Remaining(current) == Max(MAX_REQUESTS - current, 0)

\* The headers set on the handler's response.
RateLimitHeaders(current) ==
    ( "X-RateLimit-Limit" :> Str(MAX_REQUESTS) ) @@
    ( "X-RateLimit-Remaining" :> Str(Remaining(current)) ) @@
    ( "X-RateLimit-Reset" :> Str(WINDOW) )

\* A variant that also rejects a body of exactly the limit.
TooLargeDeclaredInclusive(content_length) ==
    ParseInt(content_length) >= MAX_BODY_SIZE

\* int(content_length) > Constants.MAX_BODY_SIZE
TooLargeDeclared(content_length) == ParseInt(content_length) > MAX_BODY_SIZE

\* A variant that lets one byte more through.
TooLargeBodyLate(body) == body > MAX_BODY_SIZE + 1

\* len(body) > Constants.MAX_BODY_SIZE
TooLargeBody(body) == body > MAX_BODY_SIZE

\* A variant that rejects one request late.
OverLimitLate(new_value) == new_value > MAX_REQUESTS + 1

\* new_value > Constants.MAX_REQUESTS
OverLimit(new_value) == new_value > MAX_REQUESTS

\* The ttl handed to cache.set.
SetTtl == WINDOW

\* History: the fixed window of a client after a rate check at time t that
\* read `current` and ended `allowed` with count new_value.  A window starts
\* at its first rate check and lasts WINDOW seconds; the first rate check at
\* or after its end starts the next one.  `last` is the time of the client's
\* last allowed request, kept from window to window.
WindowAfter(w, t, current, allowed, new_value) ==
    LET opens == w.start < 0 \/ t >= w.start + WINDOW
        base == IF opens
                THEN [start |-> t, n |-> 0, fresh |-> (current = None),
                      counts |-> <<>>, last |-> w.last]
                ELSE w
    IN  [base EXCEPT !.n = IF @ <= MAX_REQUESTS THEN @ + 1 ELSE @,
                     !.counts = IF allowed THEN Append(@, new_value) ELSE @,
                     !.last = IF allowed THEN t ELSE @]

\* History: at time t no request of the client was allowed during the last
\* WINDOW seconds.
Quiet(w, t) == w.last < 0 \/ t - w.last >= WINDOW

\* Non-documentation requests in the pipeline.
InFlight == Cardinality({r \in Reqs : req[r].pc # "idle" /\ req[r].path \notin DocPaths})

\* A variant in which every RedisLikeCache() starts empty.
CurrentOfNewCache(key) == None

\* cache = RedisLikeCache(); current = cache.get(key)
Current(key) == CacheGet(cache, key, now)

\* A variant that calls cache.set before the limit is tested, so that a
\* rejected request is stored as well.
CacheAfterRejectStored(key, new_value) ==
    CacheSet(cache, key, new_value, SetTtl, now)

\* A variant that re-arms the entry's expiry on a rejected request.
CacheAfterRejectTouched(key, new_value) ==
    CacheSet(cache, key, new_value - 1, SetTtl, now)

\* The store after the branch that raises 429: the branch holds no cache
\* call, cache.set comes after it.
CacheAfterReject(key, new_value) == cache

\* Rate limit check up to the await of call_next, for request r whose record
\* after the size check is q.
RateLimit(r, q) ==
    LET identifier == get_client_identifier(q.client)
        key == Key(identifier)
        current == Current(key)
        new_value == NewValue(current)
        allowed == ~OverLimit(new_value)
        w == WindowAfter(win[q.client], now, current, allowed, new_value)
        q1 == [q EXCEPT !.new_value = new_value, !.fresh = (current = None),
                        !.k = w.n, !.wfresh = w.fresh,
                        !.quiet = Quiet(win[q.client], now),
                        !.before = Len(w.counts) - (IF allowed THEN 1 ELSE 0)]
    IN  /\ win' = [win EXCEPT ![q.client] = w]
        /\ IF OverLimit(new_value)
           THEN /\ req' = [req EXCEPT ![r] = Raise429(q1)]
                /\ cache' = CacheAfterReject(key, new_value)
           ELSE /\ cache' = CacheSet(cache, key, new_value, SetTtl, now)
                /\ req' = [req EXCEPT ![r] =
                             [Step(q1, "RateChecked") EXCEPT !.pc = "handler",
                                                             !.called = TRUE]]

\* A variant that runs the rate limiter before the body-size guard: the
\* request rejected with 413 has been counted already.
CacheAfter413Counted(q) ==
    LET key == Key(get_client_identifier(q.client))
    IN  CacheSet(cache, key, NewValue(CacheGet(cache, key, now)), SetTtl, now)

\* The store after a 413: both raises come before RedisLikeCache() is
\* created and read.
CacheAfter413(q) == cache

\* A variant that lets only the first documentation path bypass.
IsDocumentationFirstOnly(path) == path = "/docs"

\* request.url.path in ["/docs", "/redoc", "/openapi.json"]
IsDocumentation(path) == path \in DocPaths

\* A request arrives: the code up to the first await.
Receive(r, path, client, content_length) ==
    /\ req[r].pc = "idle"
    /\ \A s \in Reqs : s < r => req[s].pc # "idle"
    /\ path \notin DocPaths => monitor + InFlight < MaxTotal
    /\ LET q0 == [req[r] EXCEPT !.path = path, !.client = client,
                                !.content_length = content_length]
           q == IF IsDocumentation(path) THEN q0 ELSE Step(q0, "Received")
       IN  IF IsDocumentation(path)
           THEN /\ req' = [req EXCEPT ![r] = [q EXCEPT !.pc = "doc_handler",
                                                       !.called = TRUE]]
                /\ UNCHANGED <<cache, win>>
           ELSE IF content_length # <<>>
           THEN IF TooLargeDeclared(content_length)
                THEN /\ req' = [req EXCEPT ![r] = Raise413(q)]
                     /\ cache' = CacheAfter413(q)
                     /\ UNCHANGED win
                ELSE RateLimit(r, Step(q, "SizeChecked"))
           ELSE /\ req' = [req EXCEPT ![r] = [q EXCEPT !.pc = "stream"]]
                /\ UNCHANGED <<cache, win>>
    /\ UNCHANGED <<now, monitor, life>>

\* request.stream() yields a chunk of `size` bytes.
ReadChunk(r, size) ==
    /\ req[r].pc = "stream"
    /\ LET q == [req[r] EXCEPT !.body = @ + size]
       IN  IF TooLargeBody(q.body)
           THEN /\ req' = [req EXCEPT ![r] = Raise413(q)]
                /\ cache' = CacheAfter413(q)
           ELSE /\ req' = [req EXCEPT ![r] = q]
                /\ UNCHANGED cache
    /\ UNCHANGED <<now, monitor, win, life>>

\* request.stream() is exhausted: request._body = body, then the rate check.
StreamEnd(r) ==
    /\ req[r].pc = "stream"
    /\ RateLimit(r, Step(req[r], "SizeChecked"))
    /\ UNCHANGED <<now, monitor, life>>

\* monitor.increment_request(response_time_ms): the aggregate request count
\* goes up by one.
increment_request(count) == count + 1

\* A variant in which get_monitor() hands every request a monitor of its
\* own.
MonitorAfterOwnCopy == increment_request(0)

\* monitor = get_monitor(); ...; monitor.increment_request(response_time_ms):
\* a plain call on the shared monitor, not awaited.
MonitorAfter == increment_request(monitor)

\* call_next returns the handler's response: headers, monitor, return.
HandlerReturns(r) ==
    /\ req[r].pc = "handler"
    /\ req' = [req EXCEPT ![r] =
                 [@ EXCEPT !.pc = "done", !.result = "response",
                           !.status_code = 200,
                           !.headers = RateLimitHeaders(req[r].new_value),
                           !.monitored = TRUE,
                           !.steps = @ \o StepsAfterHandler]]
    /\ monitor' = MonitorAfter
    /\ UNCHANGED <<now, cache, win, life>>

\* call_next raises: the exception leaves http_middleware at line 120 or 176.
HandlerRaises(r) ==
    /\ req[r].pc \in {"handler", "doc_handler"}
    /\ req' = [req EXCEPT ![r] = [@ EXCEPT !.pc = "done", !.result = "exception"]]
    /\ UNCHANGED <<now, cache, monitor, win, life>>

\* A documentation request: call_next returns and the response is returned.
DocReturns(r) ==
    /\ req[r].pc = "doc_handler"
    /\ req' = [req EXCEPT ![r] = [@ EXCEPT !.pc = "done", !.result = "response",
                                           !.status_code = 200]]
    /\ UNCHANGED <<now, cache, monitor, win, life>>

\* The request is answered (the returned response, or the raised exception
\* through the registered exception handlers) and leaves the pipeline.
Responded(r) ==
    /\ req[r].pc = "done"
    /\ req' = [req EXCEPT ![r] = Idle]
    /\ UNCHANGED <<now, cache, monitor, win, life>>

\* Time passes.
Tick ==
    /\ now < MaxTime
    /\ now' = now + 1
    /\ UNCHANGED <<cache, req, monitor, win, life>>

\* The rate limiter: requests of two clients over time, with a declared
\* body within the limit or no content-length and an empty body (the
\* request waits at request.stream() until the stream ends).
NextRate ==
    \/ \E r \in Reqs, client \in Clients, cl \in {<<>>, Str(MAX_BODY_SIZE)} :
          Receive(r, "/", client, cl)
    \/ \E r \in Reqs : StreamEnd(r)
    \/ \E r \in Reqs : HandlerReturns(r)
    \/ \E r \in Reqs : Responded(r)
    \/ Tick

SpecRate == Init /\ [][NextRate]_vars

\* The pipeline: non-documentation requests of one client, with every
\* content-length and streamed body, and handlers that may raise.
NextPipeline ==
    \/ \E r \in Reqs, cl \in ContentLengths : Receive(r, "/", "a", cl)
    \/ \E r \in Reqs, size \in 0..MaxChunk : ReadChunk(r, size)
    \/ \E r \in Reqs : StreamEnd(r)
    \/ \E r \in Reqs : HandlerReturns(r)
    \/ \E r \in Reqs : HandlerRaises(r)
    \/ \E r \in Reqs : Responded(r)

SpecPipeline == Init /\ [][NextPipeline]_vars

\* The documentation bypass: requests of one client to every path, with
\* every content-length (streamed bodies are empty), and handlers that may
\* raise.
NextDocs ==
    \/ \E r \in Reqs, path \in Paths, cl \in ContentLengths :
          Receive(r, path, "a", cl)
    \/ \E r \in Reqs : StreamEnd(r)
    \/ \E r \in Reqs : HandlerReturns(r)
    \/ \E r \in Reqs : HandlerRaises(r)
    \/ \E r \in Reqs : DocReturns(r)
    \/ \E r \in Reqs : Responded(r)

SpecDocs == Init /\ [][NextDocs]_vars

\* ---------------------------------------------------------------- lifespan
\* History: the lifespan has executed the line named e.
LifeEvent(l, e) == [l EXCEPT !.events = Append(@, e)]

\* system_monitor_task = asyncio.create_task(util.periodic_update()), up to
\* the await of db_init.
CreateTask ==
    /\ life.pc = "start"
    /\ life' = [LifeEvent(life, "create_task") EXCEPT !.pc = "db_init",
                                                      !.task = "scheduled"]
    /\ UNCHANGED <<now, cache, req, monitor, win>>

\* db_init returns; the lifespan yields and the application serves.
DbInitReturns ==
    /\ life.pc = "db_init"
    /\ life' = [LifeEvent(LifeEvent(life, "db_init"), "yield")
                   EXCEPT !.pc = "serving", !.db = "open"]
    /\ UNCHANGED <<now, cache, req, monitor, win>>

\* db_init raises: startup fails, the lifespan never yields.
DbInitRaises ==
    /\ life.pc = "db_init"
    /\ life' = [life EXCEPT !.pc = "failed"]
    /\ UNCHANGED <<now, cache, req, monitor, win>>

\* The periodic task is unfinished.
TaskRunning(l) == l.task \in {"scheduled", "sleeping"}

\* util.periodic_update: one more update, then the task sleeps for the
\* interval.
TaskUpdates ==
    /\ TaskRunning(life) /\ ~life.cancel_requested
    /\ life.updates < MaxUpdates
    /\ life' = [life EXCEPT !.task = "sleeping", !.updates = @ + 1]
    /\ UNCHANGED <<now, cache, req, monitor, win>>

\* util.periodic_update: an update raises and the task ends with that
\* exception.
TaskFails ==
    /\ TaskRunning(life) /\ ~life.cancel_requested
    /\ life' = [life EXCEPT !.task = "failed"]
    /\ UNCHANGED <<now, cache, req, monitor, win>>

\* The event loop throws CancelledError into the task at the await it is
\* suspended at (or before its first line); the task ends cancelled.
TaskCancelled ==
    /\ TaskRunning(life) /\ life.cancel_requested
    /\ life' = [life EXCEPT !.task = "cancelled"]
    /\ UNCHANGED <<now, cache, req, monitor, win>>

\* Requests are served while the lifespan is suspended at its yield.
ServeReceive(r) ==
    /\ life.pc = "serving"
    /\ Receive(r, "/", "a", Str(MAX_BODY_SIZE))

ServeHandlerReturns(r) ==
    /\ life.pc = "serving"
    /\ HandlerReturns(r)

ServeResponded(r) ==
    /\ life.pc = "serving"
    /\ Responded(r)

\* task.cancel(): a request to cancel a task that has not finished; no
\* effect on one that has.
Cancel(l) ==
    [l EXCEPT !.cancel_requested = IF TaskRunning(l) THEN TRUE ELSE @]

\* The server shuts down once the requests in flight are answered: the
\* yield returns, system_monitor_task.cancel(), up to the await of the task.
Shutdown ==
    /\ life.pc = "serving"
    /\ \A r \in Reqs : req[r].pc = "idle"
    /\ life' = [LifeEvent(Cancel(life), "cancel") EXCEPT !.pc = "join"]
    /\ UNCHANGED <<now, cache, req, monitor, win>>

\* A variant that goes on without waiting for the task.
JoinReadyNoWait == TRUE

\* await system_monitor_task: resumed when the task has finished.
JoinReady == ~TaskRunning(life)

\* with contextlib.suppress(asyncio.CancelledError): await system_monitor_task
\* The await raises what the task ended with: CancelledError is suppressed
\* and the lifespan goes on to the await of db_close; any other exception
\* leaves the with block and the lifespan.
Join ==
    /\ life.pc = "join"
    /\ JoinReady
    /\ life' = [LifeEvent(life, "join") EXCEPT
                   !.pc = IF life.task = "failed" THEN "failed" ELSE "db_close"]
    /\ UNCHANGED <<now, cache, req, monitor, win>>

\* db_close returns, the closing message is printed, the lifespan ends.
DbCloseReturns ==
    /\ life.pc = "db_close"
    /\ life' = [LifeEvent(LifeEvent(life, "db_close"), "end")
                   EXCEPT !.pc = "done", !.db = "closed"]
    /\ UNCHANGED <<now, cache, req, monitor, win>>

\* The lifespan from startup to shutdown, with the periodic task and the
\* requests of one client served in between.
NextLifespan ==
    \/ CreateTask
    \/ DbInitReturns
    \/ DbInitRaises
    \/ TaskUpdates
    \/ TaskFails
    \/ TaskCancelled
    \/ \E r \in Reqs : ServeReceive(r)
    \/ \E r \in Reqs : ServeHandlerReturns(r)
    \/ \E r \in Reqs : ServeResponded(r)
    \/ Shutdown
    \/ Join
    \/ DbCloseReturns

SpecLifespan == InitLifespan /\ [][NextLifespan]_vars

\* ------------------------------------------------------------------ claims
\* Request r has been through the rate check.
RateChecked(r) == req[r].k >= 1

\* Request r passed the rate check: call_next was awaited, no 429.
Allowed(r) == RateChecked(r) /\ req[r].called /\ req[r].status_code # 429

\* Request r was rejected by the rate check.
Rejected429(r) ==
    /\ req[r].pc = "done"
    /\ req[r].result = "http_exception"
    /\ req[r].status_code = 429

\* The cache entry of a client, if any.
Stored(client) ==
    LET key == Key(get_client_identifier(client))
    IN  IF key \in DOMAIN cache THEN <<cache[key]>> ELSE <<>>

\* C1: starting from no stored counter, the first MAX_REQUESTS requests of a
\* client within WINDOW seconds of the first all pass the rate check, the
\* k-th obtains the count k, and the stored counter after the k-th is k.
C1_CountsUpByOne ==
    /\ \A r \in Reqs :
          (RateChecked(r) /\ req[r].wfresh /\ req[r].k <= MAX_REQUESTS)
             => (Allowed(r) /\ req[r].new_value = req[r].k)
    /\ \A c \in Clients :
          (win[c].fresh /\ win[c].n >= 1 /\ win[c].n <= MAX_REQUESTS)
             => (Stored(c) # <<>> /\ Stored(c)[1].value = win[c].n)

\* C1 witness: the MAX_REQUESTS-th request of a window that began at time
\* WINDOW or later has passed with count MAX_REQUESTS.
C1_Witness ==
    \E r \in Reqs :
        /\ req[r].wfresh /\ req[r].k = MAX_REQUESTS /\ Allowed(r)
        /\ win[req[r].client].start >= WINDOW
        /\ Stored(req[r].client)[1].value = MAX_REQUESTS

\* C2: a request that arrives in a window in which MAX_REQUESTS requests of
\* its client were already allowed is rejected with 429 and reports
\* X-RateLimit-Remaining "0".
C2_NextIsRejected ==
    \A r \in Reqs :
        (RateChecked(r) /\ req[r].before = MAX_REQUESTS)
           => /\ Rejected429(r)
              /\ ~req[r].called
              /\ req[r].headers["X-RateLimit-Remaining"] = <<0>>

\* C2 witness: such a request has been rejected.
C2_Witness ==
    \E r \in Reqs :
        /\ RateChecked(r) /\ req[r].before = MAX_REQUESTS
        /\ Rejected429(r)

\* C3 (as claimed): every request that arrives WINDOW seconds or more after
\* the first request of its client's current window starts a fresh window
\* and is allowed with count 1.
C3_FixedWindow ==
    \A r \in Reqs :
        (RateChecked(r) /\ req[r].k = 1)
           => (Allowed(r) /\ req[r].new_value = 1)

\* C4: with requests of one client interleaved at the body read and at the
\* handler await, the counts handed out in one window are consecutive (each
\* is the one before plus 1: no update is lost, no count is handed out
\* twice), at most MAX_REQUESTS requests are allowed in it, and the stored
\* counter is the last count handed out.
C4_AtomicCounter ==
    \A c \in Clients :
        LET counts == win[c].counts
        IN  /\ Len(counts) <= MAX_REQUESTS
            /\ \A i \in 1..(Len(counts) - 1) : counts[i + 1] = counts[i] + 1
            /\ counts # <<>> =>
                  /\ Stored(c) # <<>>
                  /\ Stored(c)[1].value = counts[Len(counts)]

\* C4 witness: two requests of one client, both suspended at the body read
\* and then at the handler await together, have passed the rate check with
\* counts 1 and 2.
C4_Witness ==
    \E r1, r2 \in Reqs :
        /\ r1 # r2
        /\ req[r1].client = req[r2].client
        /\ req[r1].content_length = <<>> /\ req[r2].content_length = <<>>
        /\ req[r1].pc = "handler" /\ req[r2].pc = "handler"
        /\ req[r1].new_value = 1 /\ req[r2].new_value = 2
        /\ win[req[r1].client].counts = <<1, 2>>

\* The client whose request r takes the step.
Actor(r) == IF req[r].pc = "idle" THEN req'[r].client ELSE req[r].client

\* C5: a step of a request of one client leaves the cache entry (counter and
\* expiry) of every other client unchanged, and the first rate check of a
\* client is allowed with count 1 whatever the other clients have sent.
C5_PerClientState ==
    [][\A r \in Reqs :
          req'[r] # req[r] =>
             /\ \A b \in Clients \ {Actor(r)} : Stored(b)' = Stored(b)
             /\ (win[Actor(r)].start < 0 /\ win'[Actor(r)].start >= 0)
                   => (req'[r].pc = "handler" /\ req'[r].new_value = 1)]_vars

\* C5 witness: one client has used up its quota (its live counter is at
\* MAX_REQUESTS) and the first request of another client has passed with
\* count 1.
C5_Witness ==
    \E r \in Reqs, a \in Clients :
        /\ a # req[r].client
        /\ Stored(a) # <<>>
        /\ Stored(a)[1].value = MAX_REQUESTS /\ now < Stored(a)[1].expires_at
        /\ Allowed(r) /\ req[r].new_value = 1 /\ win[req[r].client].n = 1

\* C6: of the requests of a window that starts with no stored counter, the
\* k-th (1 <= k <= MAX_REQUESTS) is answered by the handler's response with
\* X-RateLimit-Remaining = MAX_REQUESTS - k, and every later one with 429
\* carrying Retry-After = WINDOW.
C6_EndToEnd ==
    \A r \in Reqs :
        (RateChecked(r) /\ req[r].wfresh) =>
            IF req[r].k <= MAX_REQUESTS
            THEN \/ req[r].pc = "handler"
                 \/ /\ req[r].pc = "done"
                    /\ req[r].result = "response"
                    /\ req[r].status_code = 200
                    /\ req[r].headers["X-RateLimit-Remaining"]
                          = Str(MAX_REQUESTS - req[r].k)
            ELSE /\ Rejected429(r)
                 /\ req[r].headers["Retry-After"] = Str(WINDOW)

\* C6 witness: the MAX_REQUESTS-th request was answered with remaining "0"
\* and the next one with 429.
C6_Witness ==
    \E r1, r2 \in Reqs :
        /\ req[r1].client = req[r2].client
        /\ req[r1].wfresh /\ req[r1].k = MAX_REQUESTS
        /\ req[r1].result = "response"
        /\ req[r1].headers["X-RateLimit-Remaining"] = <<0>>
        /\ req[r2].wfresh /\ req[r2].k = MAX_REQUESTS + 1
        /\ Rejected429(r2)

\* Request r is in the pipeline (not a documentation request).
InPipeline(r) == req[r].pc # "idle" /\ req[r].path \notin DocPaths

\* Request r was rejected by the body-size guard.
Rejected413(r) ==
    /\ req[r].pc = "done"
    /\ req[r].result = "http_exception"
    /\ req[r].status_code = 413

\* C7: a request declaring a content-length above MAX_BODY_SIZE is rejected
\* with 413 and call_next is not invoked; one declaring MAX_BODY_SIZE or
\* less passes the size check and reaches the rate check.
C7_DeclaredSize ==
    \A r \in Reqs :
        (InPipeline(r) /\ req[r].content_length # <<>>) =>
            IF ParseInt(req[r].content_length) > MAX_BODY_SIZE
            THEN Rejected413(r) /\ ~req[r].called /\ ~RateChecked(r)
            ELSE req[r].status_code # 413 /\ RateChecked(r)

\* C7 witness: a request declaring MAX_BODY_SIZE + 1 was rejected and one
\* declaring MAX_BODY_SIZE reached the handler.
C7_Witness ==
    \E r1, r2 \in Reqs :
        /\ InPipeline(r1) /\ InPipeline(r2)
        /\ ParseInt(req[r1].content_length) = MAX_BODY_SIZE + 1
        /\ Rejected413(r1)
        /\ req[r2].content_length # <<>>
        /\ ParseInt(req[r2].content_length) = MAX_BODY_SIZE
        /\ req[r2].pc = "handler"

\* C8: while a streamed body is being read the bytes buffered are at most
\* MAX_BODY_SIZE; the chunk that takes them above it ends the request with
\* 413 (so at most MAX_BODY_SIZE plus one chunk is ever buffered, and no
\* handler runs); a streamed body of at most MAX_BODY_SIZE bytes passes.
C8_StreamedSize ==
    \A r \in Reqs :
        (InPipeline(r) /\ req[r].content_length = <<>>) =>
            /\ req[r].pc = "stream" => req[r].body <= MAX_BODY_SIZE
            /\ req[r].body <= MAX_BODY_SIZE + MaxChunk
            /\ req[r].body > MAX_BODY_SIZE =>
                  (Rejected413(r) /\ ~req[r].called /\ ~RateChecked(r))
            /\ (req[r].body <= MAX_BODY_SIZE /\ req[r].pc # "stream") =>
                  (req[r].status_code # 413 /\ RateChecked(r))

\* C8 witness: a streamed body was rejected once above the limit, and a
\* streamed body of exactly MAX_BODY_SIZE bytes reached the handler.
C8_Witness ==
    \E r1, r2 \in Reqs :
        /\ InPipeline(r1) /\ InPipeline(r2)
        /\ req[r1].content_length = <<>> /\ req[r2].content_length = <<>>
        /\ req[r1].body > MAX_BODY_SIZE /\ Rejected413(r1)
        /\ req[r2].body = MAX_BODY_SIZE /\ req[r2].pc = "handler"

\* C9: for a request rejected at the size check or at the rate check,
\* call_next is never invoked.
C9_ShortCircuit ==
    \A r \in Reqs :
        (Rejected413(r) \/ Rejected429(r)) =>
            ~req[r].called

\* C9 witness: a request rejected with 413 and one rejected with 429.
C9_Witness ==
    \E r1, r2 \in Reqs : Rejected413(r1) /\ Rejected429(r2)

\* C10 (as claimed): every non-documentation request that has been answered
\* has had increment_request called for it, 413 and 429 included, so that
\* the calls number as many as the requests answered.
C10_MonitorCountsAll ==
    \A r \in Reqs :
        (InPipeline(r) /\ req[r].pc = "done") => req[r].monitored

\* C11: the step in which a request is rejected with 429 leaves the cache
\* entry of its client as it was, counter and expiry, and every other entry
\* too.
C11_RejectionLeavesCache ==
    [][\A r \in Reqs :
          (~Rejected429(r) /\ Rejected429(r)') =>
             /\ \A c \in Clients :
                   c = Actor(r) => Stored(c)' = Stored(c)
             /\ cache' = cache]_vars

\* C11 witness: a request was rejected with 429 at a time after the write of
\* the entry that rejected it, and the entry still holds MAX_REQUESTS and
\* the expiry of that write.
C11_Witness ==
    \E r \in Reqs :
        /\ Rejected429(r)
        /\ Stored(req[r].client) # <<>>
        /\ Stored(req[r].client)[1].value = MAX_REQUESTS
        /\ Stored(req[r].client)[1].expires_at < now + SetTtl
        /\ now < Stored(req[r].client)[1].expires_at

\* C12: the body-size guard runs before the rate limiter: the step in which
\* a request is rejected with 413, on its declared length or while its body
\* is streamed, leaves every cache entry (counter and expiry) unchanged, and
\* the request has not been through the rate check.
C12_SizeGuardFirst ==
    [][\A r \in Reqs :
          (~Rejected413(r) /\ Rejected413(r)') =>
             /\ cache' = cache
             /\ win' = win
             /\ req'[r].k = 0 /\ req'[r].new_value = 0]_vars

\* C12 witness: with a counter stored for the client, one request was
\* rejected with 413 on its declared length and one on its streamed body.
C12_Witness ==
    \E r1, r2 \in Reqs :
        /\ Rejected413(r1) /\ req[r1].content_length # <<>>
        /\ Rejected413(r2) /\ req[r2].content_length = <<>>
        /\ Stored(req[r1].client) # <<>>
        /\ Stored(req[r1].client)[1].value >= 1

\* The stages of the claimed state machine of a request, in order.
Stages ==
    <<"Received", "SizeChecked", "RateChecked", "Handled",
      "HeadersAnnotated", "MonitorUpdated", "Responded">>

\* Sequence s is an initial part of sequence t.
IsPrefix(s, t) == Len(s) <= Len(t) /\ \A i \in 1..Len(s) : s[i] = t[i]

\* The number of times stage `name` occurs in sequence s.
Times(s, name) == Cardinality({i \in 1..Len(s) : s[i] = name})

\* C13 (as claimed): every non-documentation request that was not rejected
\* with 413 or 429 and has left http_middleware went through all seven
\* stages.
C13_AllStagesAsClaimed ==
    \A r \in Reqs :
        (InPipeline(r) /\ req[r].pc = "done"
           /\ ~Rejected413(r) /\ ~Rejected429(r))
           => req[r].steps = Stages

\* C13 (amended): a non-documentation request goes through the stages in
\* the claimed order, each at most once; the handler is awaited only after
\* both checks passed and the counter was written; a request answered with
\* the handler's response went through all seven stages, the headers after
\* the handler returned and the monitor update once, after the headers and
\* before the return; a request whose handler raises stops before Handled.
C13_StageOrder ==
    \A r \in Reqs :
        InPipeline(r) =>
            /\ IsPrefix(req[r].steps, Stages)
            /\ req[r].called =>
                  /\ IsPrefix(SubSeq(Stages, 1, 3), req[r].steps)
                  /\ Stored(req[r].client) # <<>>
                  /\ req[r].new_value >= 1
            /\ req[r].headers # NoHeaders /\ ~Rejected429(r) =>
                  Times(req[r].steps, "Handled") = 1
            /\ req[r].monitored <=> Times(req[r].steps, "MonitorUpdated") = 1
            /\ (req[r].pc = "done" /\ req[r].result = "response") <=>
                  req[r].steps = Stages
            /\ req[r].result = "exception" =>
                  req[r].steps = SubSeq(Stages, 1, 3)

\* C13 witness: one request was answered with the handler's response after
\* all seven stages, and the handler of another one raised.
C13_Witness ==
    \E r1, r2 \in Reqs :
        /\ InPipeline(r1) /\ req[r1].result = "response"
        /\ req[r1].steps = Stages /\ req[r1].monitored
        /\ InPipeline(r2) /\ req[r2].result = "exception"

\* The path of the request that takes the step in slot r.
ActorPath(r) == IF req[r].pc = "idle" THEN req'[r].path ELSE req[r].path

\* C14: a request to a documentation endpoint goes straight to the handler
\* on arrival, whatever its size and its client's quota, is never ended by a
\* 413 or a 429, and none of its steps changes the rate-limit cache or the
\* monitor's request count.
C14_DocsBypass ==
    [][\A r \in Reqs :
          (req'[r] # req[r] /\ ActorPath(r) \in DocPaths) =>
             /\ cache' = cache
             /\ monitor' = monitor
             /\ win' = win
             /\ req[r].pc = "idle" =>
                   (req'[r].pc = "doc_handler" /\ req'[r].called)
             /\ req'[r].result # "http_exception"
             /\ req'[r].status_code \notin {413, 429}
             /\ req'[r].k = 0 /\ ~req'[r].monitored]_vars

\* C14 witness: a documentation request declaring a body above the limit
\* was answered by its handler while its client's quota was used up and
\* the monitor had counted a request.
C14_Witness ==
    \E r \in Reqs :
        /\ req[r].path \in DocPaths /\ req[r].pc = "done"
        /\ req[r].result = "response"
        /\ req[r].content_length # <<>>
        /\ ParseInt(req[r].content_length) > MAX_BODY_SIZE
        /\ Stored(req[r].client) # <<>>
        /\ Stored(req[r].client)[1].value = MAX_REQUESTS
        /\ now < Stored(req[r].client)[1].expires_at
        /\ monitor >= 1

\* C15: in every step the monitor's request count goes up by exactly the
\* number of requests whose monitor update happens in that step, whatever
\* other requests are in flight; so N requests reaching the monitor update
\* leave the count N higher, and no increment is lost.
C15_NoLostIncrement ==
    [][monitor' = monitor +
          Cardinality({r \in Reqs : ~req[r].monitored /\ req'[r].monitored})]_vars

\* C15 witness: two requests of one client were in their handlers together
\* (the first to pass the rate check is still there), the other one has
\* reached its monitor update, and the count is one more than the updates
\* of the requests answered before them.
C15_Witness ==
    \E r1, r2 \in Reqs :
        /\ req[r1].client = req[r2].client
        /\ req[r1].pc = "handler" /\ req[r1].new_value = 1
        /\ req[r2].pc = "done" /\ req[r2].monitored /\ req[r2].new_value = 2
        /\ win[req[r1].client].counts = <<1, 2>>
        /\ monitor = 1

\* C17: every counter stored in the cache is an integer from 1 to
\* MAX_REQUESTS: never 0 or less, never above the limit.
C17_StoredInRange ==
    \A key \in DOMAIN cache :
        /\ cache[key].value \in Int
        /\ 1 <= cache[key].value /\ cache[key].value <= MAX_REQUESTS

\* C17 witness: both ends of the range are stored: one client's counter is
\* at MAX_REQUESTS and another client's at 1.
C17_Witness ==
    \E a, b \in Clients :
        /\ Stored(a) # <<>> /\ Stored(a)[1].value = MAX_REQUESTS
        /\ Stored(b) # <<>> /\ Stored(b)[1].value = 1

\* C18: a request that reaches the rate check when no request of its client
\* was allowed during the last WINDOW seconds is allowed with count 1,
\* whatever requests of the client were rejected in between.
C18_NoLockout ==
    \A r \in Reqs :
        (RateChecked(r) /\ req[r].quiet)
           => (Allowed(r) /\ req[r].new_value = 1)

\* C18 witness: a request arrived WINDOW seconds or more after its client's
\* last allowed request and was allowed with count 1, and it is not the
\* first of its window: the requests before it in the window came after
\* that last allowed request, so they were rejected.
C18_Witness ==
    \E r \in Reqs :
        /\ req[r].quiet /\ req[r].k >= 2 /\ ~req[r].wfresh
        /\ Allowed(r) /\ req[r].new_value = 1
        /\ now >= WINDOW
        /\ Stored(req[r].client)[1].value = 1

\* The lifespan has left its shutdown code, by its last line or by an
\* exception.
ShutdownOver ==
    \/ life.pc = "done"
    \/ life.pc = "failed" /\ Times(life.events, "yield") = 1

\* The place of line e in the lifespan's history, 0 if it was not executed.
At(e) ==
    IF \E i \in 1..Len(life.events) : life.events[i] = e
    THEN CHOOSE i \in 1..Len(life.events) : life.events[i] = e
    ELSE 0

\* C16: once the lifespan has left its shutdown code the periodic task is
\* no longer running; the task was cancelled, then awaited, and only then
\* the teardown ended: cancel comes before the join, the join before
\* db_close and the end, each once.
C16_CancelThenJoin ==
    /\ ShutdownOver =>
          /\ ~TaskRunning(life)
          /\ At("cancel") >= 1 /\ At("cancel") < At("join")
    /\ At("join") >= 1 => (At("cancel") >= 1 /\ At("cancel") < At("join"))
    /\ At("db_close") >= 1 => At("join") >= 1 /\ At("join") < At("db_close")
    /\ At("end") >= 1 => At("join") >= 1 /\ At("join") < At("end")
    /\ life.pc = "done" => At("end") = Len(life.events)
    /\ \A e \in {"cancel", "join", "db_close", "end"} :
          Times(life.events, e) <= 1

\* C16 witness: the lifespan ended after a shutdown that found the periodic
\* task still running: the task was cancelled and is over.
C16_Witness ==
    /\ life.pc = "done"
    /\ life.cancel_requested /\ life.task = "cancelled"
    /\ life.updates >= 1

\* C19 (as claimed): whenever the lifespan has left its shutdown code,
\* db_close was executed.
C19_DbCloseAlways ==
    ShutdownOver => (At("db_close") >= 1 /\ life.db = "closed")

====
